---- MODULE Spec2Model ----
(***************************************************************************)
(* Find Record Lifecycle & Asset-Consistency Service.                      *)
(*                                                                         *)
(* FindService (src/src/services/findservice.ts, lines 19-145) drives two  *)
(* collaborators: the Asset Store (firebase/storage) and the Record Store  *)
(* (firebase/firestore).  Every `await` of a collaborator call is a        *)
(* suspension point, so each service method is a small step machine; one   *)
(* action below is the code that runs from one suspension point to the     *)
(* next, the catch blocks it goes through included.  Several callers       *)
(* (browser tabs) may have a service call in flight at once; a session has *)
(* one tab open.                                                           *)
(***************************************************************************)
EXTENDS Integers, Sequences, FiniteSets, TLC

VARIABLES
    tabs,       \* the callers (browser tabs) that are open
    now,        \* the client clock: the last value read by Date.now() / new Date()
    assets,     \* Asset Store: the set of object paths that hold an object
    records,    \* Record Store: document id -> document of collection 'finds'
    ncalls,     \* the number of service calls made since Init
    nextId,     \* the next document id addDoc assigns
    pc,         \* per caller: the suspension point its service call is at
    call,       \* per caller: the method called and its arguments
    local,      \* per caller: the local variables of the running method
    result,     \* per caller: how the call settled ("ok" or the Error message)
    ret,        \* per caller: what the call resolved with (addFind: the Find;
                \* getFinds: the list of Finds)
    calls,      \* per caller: the collaborator calls of the current service call
    before,     \* per caller: both stores as they were when the call was made
    view        \* the state of the FindsCatalog component in tab1

vars == <<ncalls, tabs, now, assets, records, nextId, pc, call, local, result, ret, calls, before,
          view>>

----------------------------------------------------------------------------
(* Bounds *)

MaxClock == 1       \* the clock runs from 0 to this value
MaxCalls == 3       \* a session makes at most this many service calls
MaxLen == 6         \* the user types at most this many characters into a field

Procs == {"tab1", "tab2"}

(* Values *)

Placeholder == <<"/api/placeholder/300/200">>
StoragePrefix == "https://firebasestorage.googleapis.com"
BlobUrl == <<"blob:">>
Undefined == <<"undefined">>
NoFile == << >>
NoPath == << >>
NoFind == [id |-> 0]
NoDate == -1

\* File names are strings of characters: two names that differ in a
\* character uploadImage rewrites.
FileNames == { <<"a", " ">>, <<"a", "_">> }
SafeChars == {"a", "."}
MetaValues == {"m1", "m2"}

StorageError == "storage/error"
FirestoreError == "firestore/error"

\* file.name.replace(/[^a-zA-Z0-9.]/g, '_')
SanitizeName(name) ==
    [i \in DOMAIN name |-> IF name[i] \in SafeChars THEN name[i] ELSE "_"]

\* ref(storage, `finds/${timestamp}_${sanitized}`)
StorageRef(timestamp, name) == <<"finds", timestamp, SanitizeName(name)>>

\* getDownloadURL(ref): the URL of the object at that path
DownloadUrl(path) == <<StoragePrefix, path>>

\* ref(storage, imageUrl): the path a download URL names
RefFromUrl(url) == url[2]

\* imageUrl.startsWith('https://firebasestorage.googleapis.com')
IsStorageUrl(url) == url[1] = StoragePrefix

\* JavaScript truthiness of a string-or-undefined value
Truthy(v) == v # Undefined /\ v # << >>

IdleCall == [op |-> "none", id |-> 0, meta |-> "", file |-> NoFile, ref |-> Undefined]
IdleLocal == [imageUrl |-> Undefined, storageRef |-> NoPath, imageRef |-> NoPath,
              stamp |-> NoDate]

NoSnapshot == [assets |-> {}, records |-> << >>]

Entry(name, arg, ok) == [call |-> name, arg |-> arg, ok |-> ok]

Ids == DOMAIN records

\* The component's state as useState creates it (lines 23-33); version is the
\* copy of the component that runs, none when no component is mounted.
NoView == [version |-> "none", finds |-> << >>, isLoading |-> TRUE, isSubmitting |-> FALSE,
           error |-> "", what3words |-> << >>]

Remove(f, k) == [x \in (DOMAIN f) \ {k} |-> f[x]]
Put(f, k, v) == [x \in (DOMAIN f) \cup {k} |-> IF x = k THEN v ELSE f[x]]

----------------------------------------------------------------------------
Init ==
    /\ tabs = {"tab1"}
    /\ ncalls = 0
    /\ now = 0
    /\ assets = {}
    /\ records = << >>
    /\ nextId = 1
    /\ pc = [p \in Procs |-> "idle"]
    /\ call = [p \in Procs |-> IdleCall]
    /\ local = [p \in Procs |-> IdleLocal]
    /\ result = [p \in Procs |-> "none"]
    /\ ret = [p \in Procs |-> NoFind]
    /\ calls = [p \in Procs |-> << >>]
    /\ before = [p \in Procs |-> NoSnapshot]
    /\ view = NoView

\* Date.now() / new Date() reads t: time has passed since the last reading,
\* or none has.
ReadClock(t) ==
    /\ t \in now..MaxClock
    /\ now' = t

\* The caller's promise settles: control is back with the caller.
Settle(p, outcome) ==
    /\ pc' = [pc EXCEPT ![p] = "done"]
    /\ result' = [result EXCEPT ![p] = outcome]

Goto(p, label) ==
    /\ pc' = [pc EXCEPT ![p] = label]
    /\ UNCHANGED result

Log(p, name, arg, ok) ==
    calls' = [calls EXCEPT ![p] = Append(@, Entry(name, arg, ok))]

Begin(p, op, id, meta, file, ref) ==
    /\ pc[p] = "idle"
    /\ ncalls < MaxCalls
    /\ ncalls' = ncalls + 1
    /\ call' = [call EXCEPT ![p] =
                  [op |-> op, id |-> id, meta |-> meta, file |-> file, ref |-> ref]]
    /\ calls' = [calls EXCEPT ![p] = << >>]
    /\ before' = [before EXCEPT ![p] = [assets |-> assets, records |-> records]]

----------------------------------------------------------------------------
(* The catch blocks *)

\* uploadImage, lines 30-33
UploadImageCatch(error) == "Failed to upload image"
\* addFind, lines 84-87
AddFindCatch(error) == "Failed to add find"
\* deleteFind, lines 94-97
DeleteFindCatch(error) == "Failed to delete find"
\* updateFind, lines 121-124
UpdateFindCatch(error) == "Failed to update find"
\* getFind, lines 140-143: rethrows what it caught
GetFindCatch(error) == error
\* getFinds, lines 58-61
GetFindsCatch(error) == "Failed to load finds"

\* The catch block of the method caller p is running.
MethodCatch(p, error) ==
    CASE call[p].op = "addFind" -> AddFindCatch(error)
      [] call[p].op = "deleteFind" -> DeleteFindCatch(error)
      [] call[p].op = "updateFind" -> UpdateFindCatch(error)
      [] call[p].op = "getFinds" -> GetFindsCatch(error)

----------------------------------------------------------------------------
(* Pieces shared by the three methods *)

\* uploadImage up to its await: the object path is fixed from Date.now() and
\* the file name, and uploadBytes is issued.
StartUpload(timestamp, file) ==
    [IdleLocal EXCEPT !.storageRef = StorageRef(timestamp, file)]

\* uploadImage throws: the error leaves the caller's own try block.
UploadFailed_Swallow(p, next, error) ==
    Goto(p, next)

UploadFailed(p, next, error) ==
    Settle(p, MethodCatch(p, error))

\* await uploadBytes(storageRef, file) settles.
UploadBytes(p, next) ==
    \E ok \in BOOLEAN :
        /\ Log(p, "uploadBytes", local[p].storageRef, ok)
        /\ UNCHANGED <<view, before, ncalls, tabs, now, records, nextId, call, local, ret>>
        /\ IF ok
           THEN /\ assets' = assets \cup {local[p].storageRef}
                /\ Goto(p, "getDownloadURL")
           ELSE /\ UNCHANGED assets
                /\ UploadFailed(p, next, UploadImageCatch(StorageError))

\* The promise of getDownloadURL(uploadResult.ref), returned without await by
\* uploadImage, settles in the caller's await; its rejection bypasses
\* uploadImage's catch.  On success the caller goes on to issue its next
\* call; date is what new Date() gives it on the way (NoDate: not read).
GetDownloadURL(p, next, date) ==
    \E ok \in BOOLEAN :
        /\ Log(p, "getDownloadURL", local[p].storageRef, ok)
        /\ UNCHANGED <<view, before, ncalls, tabs, assets, records, nextId, call, ret>>
        /\ IF ok
           THEN /\ local' = [local EXCEPT ![p].imageUrl = DownloadUrl(local[p].storageRef),
                                          ![p].stamp = date]
                /\ Goto(p, next)
           ELSE /\ UNCHANGED local
                /\ UploadFailed(p, next, StorageError)

\* deleteImage's catch, lines 44-46: the error is logged and the method ends
\* normally, so the caller continues at its next call.
DeleteImageCatch_Rethrow(p, next, error) ==
    Settle(p, MethodCatch(p, error))

DeleteImageCatch(p, next, error) ==
    Goto(p, next)

\* deleteImage(url) up to its await: nothing to do for a URL that is not a
\* storage URL; otherwise deleteObject is issued.
DeleteImageNext_NoGuard(url, next) ==
    "deleteObject"

DeleteImageNext(url, next) ==
    IF ~IsStorageUrl(url) THEN next ELSE "deleteObject"

DeleteImageRef(url) ==
    IF ~IsStorageUrl(url) THEN NoPath ELSE RefFromUrl(url)

\* await deleteObject(imageRef) settles; it rejects when there is no such
\* object, or for any other failure of the store.
DeleteObject(p, next) ==
    \E ok \in BOOLEAN :
        /\ ok => local[p].imageRef \in assets
        /\ Log(p, "deleteObject", local[p].imageRef, ok)
        /\ UNCHANGED <<view, before, ncalls, tabs, now, records, nextId, call, ret>>
        /\ UNCHANGED local
        /\ IF ok
           THEN /\ assets' = assets \ {local[p].imageRef}
                /\ Goto(p, next)
           ELSE /\ UNCHANGED assets
                /\ DeleteImageCatch(p, next, StorageError)

----------------------------------------------------------------------------
(* addFind(find, imageFile), lines 64-88 *)

\* findData, lines 72-76
FindData_NoImage(find, url, createdAt) ==
    [meta |-> find, imageUrl |-> Undefined, createdAt |-> createdAt]

FindData(find, url, createdAt) ==
    [meta |-> find, imageUrl |-> url, createdAt |-> createdAt]

\* The returned Find, lines 80-83
SavedFind(id, findData) ==
    [id |-> id, meta |-> findData.meta, imageUrl |-> findData.imageUrl,
     createdAt |-> findData.createdAt]

CallAddFind(p) ==
    \E find \in MetaValues, imageFile \in FileNames \cup {NoFile}, t \in 0..MaxClock :
        /\ Begin(p, "addFind", 0, find, imageFile, Undefined)
        /\ ReadClock(t)
        /\ UNCHANGED <<tabs, assets, records, nextId, result, ret>>
        /\ IF imageFile # NoFile
           THEN /\ local' = [local EXCEPT ![p] =
                               [StartUpload(t, imageFile) EXCEPT !.imageUrl = Placeholder]]
                /\ pc' = [pc EXCEPT ![p] = "uploadBytes"]
           ELSE /\ local' = [local EXCEPT ![p] =
                               [IdleLocal EXCEPT !.imageUrl = Placeholder, !.stamp = t]]
                /\ pc' = [pc EXCEPT ![p] = "addDoc"]

AddFindUploadBytes(p) ==
    /\ call[p].op = "addFind" /\ pc[p] = "uploadBytes"
    /\ UploadBytes(p, "addDoc")

AddFindGetDownloadURL(p) ==
    /\ call[p].op = "addFind" /\ pc[p] = "getDownloadURL"
    /\ \E t \in 0..MaxClock :
        /\ ReadClock(t)
        /\ GetDownloadURL(p, "addDoc", t)

\* addDoc rejects: the catch block rethrows; nothing is undone.
AddDocFailed_Rollback(p, error) ==
    /\ Settle(p, AddFindCatch(error))
    /\ assets' = assets \ {local[p].storageRef}
    /\ UNCHANGED <<records, nextId, ret>>

AddDocFailed(p, error) ==
    /\ Settle(p, AddFindCatch(error))
    /\ UNCHANGED <<assets, records, nextId, ret>>

\* await addDoc(this.collection, findData) settles.
AddFindAddDoc(p) ==
    /\ call[p].op = "addFind" /\ pc[p] = "addDoc"
    /\ LET findData == FindData(call[p].meta, local[p].imageUrl, local[p].stamp) IN
       \E ok \in BOOLEAN :
            /\ Log(p, "addDoc", findData, ok)
        /\ UNCHANGED <<view, before, ncalls, tabs, now, call, local>>
        /\ IF ok
           THEN /\ records' = Put(records, nextId, findData)
                /\ nextId' = nextId + 1
                /\ ret' = [ret EXCEPT ![p] = SavedFind(nextId, findData)]
                /\ Settle(p, "ok")
                /\ UNCHANGED assets
           ELSE AddDocFailed(p, FirestoreError)

----------------------------------------------------------------------------
(* deleteFind(id, imageUrl), lines 90-98 *)

\* The reference a caller holds for a stored Find: the stored one, or the
\* object URL the view put in its list after an update with a new image.
CallerRefs(id) == {records[id].imageUrl, BlobUrl}

CallDeleteFind(p) ==
    \E id \in Ids :
      \E url \in CallerRefs(id) :
        /\ Begin(p, "deleteFind", id, "", NoFile, url)
        /\ UNCHANGED <<tabs, now, assets, records, nextId, result, ret>>
        /\ local' = [local EXCEPT ![p] = [IdleLocal EXCEPT !.imageRef = DeleteImageRef(url)]]
        /\ pc' = [pc EXCEPT ![p] = DeleteImageNext(url, "deleteDoc")]

DeleteFindDeleteObject(p) ==
    /\ call[p].op = "deleteFind" /\ pc[p] = "deleteObject"
    /\ DeleteObject(p, "deleteDoc")

\* await deleteDoc(doc(this.collection, id)) settles; deleting a document
\* that does not exist succeeds.
DeleteFindDeleteDoc(p) ==
    /\ call[p].op = "deleteFind" /\ pc[p] = "deleteDoc"
    /\ \E ok \in BOOLEAN :
        /\ Log(p, "deleteDoc", call[p].id, ok)
        /\ UNCHANGED <<view, before, ncalls, tabs, now, assets, nextId, call, local, ret>>
        /\ IF ok
           THEN /\ records' = Remove(records, call[p].id)
                /\ Settle(p, "ok")
           ELSE /\ UNCHANGED records
                /\ Settle(p, DeleteFindCatch(FirestoreError))

----------------------------------------------------------------------------
(* updateFind(id, updates, newImageFile), lines 100-125; getFind, 128-144 *)

CallUpdateFind(p) ==
    \E id \in Ids, updates \in MetaValues, newImageFile \in FileNames \cup {NoFile},
       t \in 0..MaxClock :
        /\ Begin(p, "updateFind", id, updates, newImageFile, Undefined)
        /\ UNCHANGED <<tabs, assets, records, nextId, result, ret>>
        /\ IF newImageFile # NoFile
           THEN /\ ReadClock(t)
                /\ local' = [local EXCEPT ![p] =
                               [StartUpload(t, newImageFile) EXCEPT !.imageUrl = Undefined]]
                /\ pc' = [pc EXCEPT ![p] = "uploadBytes"]
           ELSE /\ t = now /\ UNCHANGED now
                /\ local' = [local EXCEPT ![p] = IdleLocal]
                /\ pc' = [pc EXCEPT ![p] = "updateDoc"]

UpdateFindUploadBytes(p) ==
    /\ call[p].op = "updateFind" /\ pc[p] = "uploadBytes"
    /\ UploadBytes(p, "getDoc")

UpdateFindGetDownloadURL(p) ==
    /\ call[p].op = "updateFind" /\ pc[p] = "getDownloadURL"
    /\ GetDownloadURL(p, "getDoc", NoDate)
    /\ UNCHANGED now

\* getFind: docSnap.exists() ? {id, ...data} : null
GetFind(id) == IF id \in Ids THEN [id |-> id, imageUrl |-> records[id].imageUrl]
                             ELSE NoFind

\* oldFind?.imageUrl, line 110
OldImageUrl(oldFind) == IF oldFind = NoFind THEN Undefined ELSE oldFind.imageUrl

\* await this.getFind(id) settles (the await of getDoc inside it); then
\* lines 110-112 run up to deleteImage's await, or on to updateDoc.
UpdateFindGetDoc(p) ==
    /\ call[p].op = "updateFind" /\ pc[p] = "getDoc"
    /\ \E ok \in BOOLEAN :
        /\ Log(p, "getDoc", call[p].id, ok)
        /\ UNCHANGED <<view, before, ncalls, tabs, now, assets, records, nextId, call, ret>>
        /\ IF ok
           THEN LET old == OldImageUrl(GetFind(call[p].id)) IN
                IF Truthy(old)
                THEN /\ local' = [local EXCEPT ![p].imageRef = DeleteImageRef(old)]
                     /\ Goto(p, DeleteImageNext(old, "updateDoc"))
                ELSE /\ UNCHANGED local
                     /\ Goto(p, "updateDoc")
           ELSE /\ UNCHANGED local
                /\ Settle(p, UpdateFindCatch(GetFindCatch(FirestoreError)))

UpdateFindDeleteObject(p) ==
    /\ call[p].op = "updateFind" /\ pc[p] = "deleteObject"
    /\ DeleteObject(p, "updateDoc")

\* The document after updateDoc(findRef, {...updates, ...(imageUrl && {imageUrl}),
\* updatedAt}), lines 116-120.  No operation reads updatedAt; the field is
\* left out of the documents.
Updated_AlwaysWritesUrl(document, updates, url) ==
    [document EXCEPT !.meta = updates, !.imageUrl = url]

Updated_Restamps(document, updates, url) ==
    [document EXCEPT !.meta = updates,
                     !.imageUrl = IF Truthy(url) THEN url ELSE @,
                     !.createdAt = NoDate]

Updated_KeepsMeta(document, updates, url) ==
    [document EXCEPT !.imageUrl = IF Truthy(url) THEN url ELSE @]

Updated(document, updates, url) ==
    [document EXCEPT !.meta = updates,
                     !.imageUrl = IF Truthy(url) THEN url ELSE @]

\* await updateDoc(...) settles; it rejects when the document does not exist.
UpdateFindUpdateDoc(p) ==
    /\ call[p].op = "updateFind" /\ pc[p] = "updateDoc"
    /\ \E ok \in BOOLEAN :
        /\ ok => call[p].id \in Ids
        /\ Log(p, "updateDoc", call[p].id, ok)
        /\ UNCHANGED <<view, before, ncalls, tabs, now, assets, nextId, call, local, ret>>
        /\ IF ok
           THEN /\ records' = [records EXCEPT ![call[p].id] =
                                 Updated(@, call[p].meta, local[p].imageUrl)]
                /\ Settle(p, "ok")
           ELSE /\ UNCHANGED records
                /\ Settle(p, UpdateFindCatch(FirestoreError))

----------------------------------------------------------------------------
(* getFinds(), lines 49-62 *)

\* doc => ({id: doc.id, ...data, createdAt: data.createdAt?.toDate()}),
\* lines 53-57
LoadedFind_NoSpread(id) ==
    [id |-> id, meta |-> "", imageUrl |-> Undefined, createdAt |-> records[id].createdAt]

LoadedFind(id) ==
    [id |-> id, meta |-> records[id].meta, imageUrl |-> records[id].imageUrl,
     createdAt |-> records[id].createdAt]

\* orderBy('createdAt', 'desc'), line 51
OrderedBy_Asc(list) ==
    \A i, j \in DOMAIN list : i < j => list[i].createdAt <= list[j].createdAt

OrderedBy(list) ==
    \A i, j \in DOMAIN list : i < j => list[i].createdAt >= list[j].createdAt

\* querySnapshot.docs.map(...): every document of the collection once, in
\* the order of the query.  Documents with the same createdAt come in the
\* order of their store-assigned names, which is any order.
QuerySnapshots ==
    { list \in [1..Cardinality(Ids) -> {LoadedFind(id) : id \in Ids}] :
        /\ \A i, j \in DOMAIN list : i # j => list[i].id # list[j].id
        /\ OrderedBy(list) }

CallGetFinds(p) ==
    /\ Begin(p, "getFinds", 0, "", NoFile, Undefined)
    /\ local' = [local EXCEPT ![p] = IdleLocal]
    /\ pc' = [pc EXCEPT ![p] = "getDocs"]
    /\ UNCHANGED <<tabs, now, assets, records, nextId, result, ret>>

\* await getDocs(q) settles.
GetFindsGetDocs(p) ==
    /\ call[p].op = "getFinds" /\ pc[p] = "getDocs"
    /\ \E ok \in BOOLEAN :
        /\ Log(p, "getDocs", "finds", ok)
        /\ UNCHANGED <<view, before, ncalls, tabs, now, assets, records, nextId, call, local>>
        /\ IF ok
           THEN /\ \E list \in QuerySnapshots : ret' = [ret EXCEPT ![p] = list]
                /\ Settle(p, "ok")
           ELSE /\ UNCHANGED ret
                /\ Settle(p, GetFindsCatch(FirestoreError))

----------------------------------------------------------------------------
\* The caller has taken the outcome of its call and is free to call again.
Resume(p) ==
    /\ pc[p] = "done"
    /\ pc' = [pc EXCEPT ![p] = "idle"]
    /\ call' = [call EXCEPT ![p] = IdleCall]
    /\ local' = [local EXCEPT ![p] = IdleLocal]
    /\ result' = [result EXCEPT ![p] = "none"]
    /\ ret' = [ret EXCEPT ![p] = NoFind]
    /\ calls' = [calls EXCEPT ![p] = << >>]
    /\ before' = [before EXCEPT ![p] = NoSnapshot]
    /\ UNCHANGED <<ncalls, tabs, now, assets, records, nextId>>

Return(p) ==
    /\ Resume(p)
    /\ UNCHANGED view

Next ==
    \/ \E p \in tabs : CallAddFind(p) /\ UNCHANGED view
    \/ \E p \in tabs : AddFindUploadBytes(p)
    \/ \E p \in tabs : AddFindGetDownloadURL(p)
    \/ \E p \in tabs : AddFindAddDoc(p)
    \/ \E p \in tabs : CallDeleteFind(p) /\ UNCHANGED view
    \/ \E p \in tabs : DeleteFindDeleteObject(p)
    \/ \E p \in tabs : DeleteFindDeleteDoc(p)
    \/ \E p \in tabs : CallUpdateFind(p) /\ UNCHANGED view
    \/ \E p \in tabs : UpdateFindUploadBytes(p)
    \/ \E p \in tabs : UpdateFindGetDownloadURL(p)
    \/ \E p \in tabs : UpdateFindGetDoc(p)
    \/ \E p \in tabs : UpdateFindDeleteObject(p)
    \/ \E p \in tabs : UpdateFindUpdateDoc(p)
    \/ \E p \in tabs : CallGetFinds(p) /\ UNCHANGED view
    \/ \E p \in tabs : GetFindsGetDocs(p)
    \/ \E p \in tabs : Return(p)

Spec == Init /\ [][Next]_vars

\* Two tabs are open; both create Finds without an image and list them.
CallAddFindNoImage(p) ==
    /\ CallAddFind(p)
    /\ call'[p].file = NoFile

InitTwoTabs ==
    /\ tabs = Procs
    /\ ncalls = 0
    /\ now = 0
    /\ assets = {}
    /\ records = << >>
    /\ nextId = 1
    /\ pc = [p \in Procs |-> "idle"]
    /\ call = [p \in Procs |-> IdleCall]
    /\ local = [p \in Procs |-> IdleLocal]
    /\ result = [p \in Procs |-> "none"]
    /\ ret = [p \in Procs |-> NoFind]
    /\ calls = [p \in Procs |-> << >>]
    /\ before = [p \in Procs |-> NoSnapshot]
    /\ view = NoView

NextList ==
    \/ \E p \in tabs : CallAddFindNoImage(p) /\ UNCHANGED view
    \/ \E p \in tabs : AddFindAddDoc(p)
    \/ \E p \in tabs : CallGetFinds(p) /\ UNCHANGED view
    \/ \E p \in tabs : GetFindsGetDocs(p)
    \/ \E p \in tabs : Return(p)

SpecList == InitTwoTabs /\ [][NextList]_vars

\* Two tabs are open; tab1 creates Finds, with or without an image, and tab2
\* lists them.
NextCreateList ==
    \/ CallAddFind("tab1") /\ UNCHANGED view
    \/ AddFindUploadBytes("tab1")
    \/ AddFindGetDownloadURL("tab1")
    \/ AddFindAddDoc("tab1")
    \/ CallGetFinds("tab2") /\ UNCHANGED view
    \/ GetFindsGetDocs("tab2")
    \/ \E p \in tabs : Return(p)

SpecCreateList == InitTwoTabs /\ [][NextCreateList]_vars

\* Two tabs update the one Find that tab1 has created: after the create has
\* resolved, each tab calls updateFind once and the steps of the two calls
\* interleave at their awaits.
NextRace ==
    \/ CallAddFind("tab1") /\ Ids = {} /\ UNCHANGED view
    \/ AddFindUploadBytes("tab1")
    \/ AddFindGetDownloadURL("tab1")
    \/ AddFindAddDoc("tab1")
    \/ Return("tab1") /\ call["tab1"].op = "addFind"
    \/ \E p \in tabs : CallUpdateFind(p) /\ UNCHANGED view
    \/ \E p \in tabs : UpdateFindUploadBytes(p)
    \/ \E p \in tabs : UpdateFindGetDownloadURL(p)
    \/ \E p \in tabs : UpdateFindGetDoc(p)
    \/ \E p \in tabs : UpdateFindDeleteObject(p)
    \/ \E p \in tabs : UpdateFindUpdateDoc(p)

SpecRace == InitTwoTabs /\ [][NextRace]_vars

----------------------------------------------------------------------------
(* The FindsCatalog component.  It is in the source twice:                  *)
(* src/src/components/FindsCatalog.tsx, and a copy in                       *)
(* src/src/services/findservice.ts from line 148, whose handleDelete        *)
(* differs.  A session runs one of them.  The component has one service     *)
(* call in flight at a time.                                                *)

Versions == {"FindsCatalog.tsx", "findservice.ts"}

FailedToLoad == "Failed to load finds. Please try again later."
FailedToSave == "Failed to save find. Please try again."
FailedToDelete == "Failed to delete find. Please try again."

\* The component has mounted: it has rendered its initial state and its
\* effect (lines 35-37) has called loadFinds, which awaits getFinds.
InitView ==
    /\ tabs = {"tab1"}
    /\ ncalls = 0
    /\ now = 0
    /\ assets = {}
    /\ records = << >>
    /\ nextId = 1
    /\ pc = [p \in Procs |-> IF p = "tab1" THEN "getDocs" ELSE "idle"]
    /\ call = [p \in Procs |-> IF p = "tab1" THEN [IdleCall EXCEPT !.op = "getFinds"]
                                             ELSE IdleCall]
    /\ local = [p \in Procs |-> IdleLocal]
    /\ result = [p \in Procs |-> "none"]
    /\ ret = [p \in Procs |-> NoFind]
    /\ calls = [p \in Procs |-> << >>]
    /\ before = [p \in Procs |-> NoSnapshot]
    /\ view \in {[NoView EXCEPT !.version = v] : v \in Versions}

\* loadFinds up to its await, lines 39-42.  The effect runs when the
\* component mounts, and again whenever React re-runs the effects of the
\* mounted component, its state kept.
LoadFinds(p) ==
    /\ CallGetFinds(p)
    /\ view' = [view EXCEPT !.isLoading = TRUE]

\* loadFinds' catch, lines 45-47
LoadFindsCatch_Clear(v) ==
    [v EXCEPT !.finds = << >>, !.error = FailedToLoad]

LoadFindsCatch(v) ==
    [v EXCEPT !.error = FailedToLoad]

\* loadFinds from its await on, lines 42-50
LoadFindsResume(p) ==
    /\ call[p].op = "getFinds"
    /\ Resume(p)
    /\ view' = [(IF result[p] = "ok"
                 THEN [view EXCEPT !.finds = ret[p], !.error = ""]
                 ELSE LoadFindsCatch(view))
                EXCEPT !.isLoading = FALSE]

\* The characters the user types: letters of either case, the dot, a digit
\* and the space.  A string is the sequence of its characters.
TypedChars == {"a", "Z", ".", "1", " "}

LowerCase == {"a", "b", "c", "d", "e", "f", "g", "h", "i", "j", "k", "l", "m",
              "n", "o", "p", "q", "r", "s", "t", "u", "v", "w", "x", "y", "z"}
UpperCase == {"A", "B", "C", "D", "E", "F", "G", "H", "I", "J", "K", "L", "M",
              "N", "O", "P", "Q", "R", "S", "T", "U", "V", "W", "X", "Y", "Z"}
Digits == {"0", "1", "2", "3", "4", "5", "6", "7", "8", "9"}

\* validateWhat3Words, lines 109-112: /^[a-zA-Z]+\.[a-zA-Z]+\.[a-zA-Z]+$/
\* run over the string.  The class [a-zA-Z]:
IsLetter_OrDigit(ch) == ch \in LowerCase \cup UpperCase \cup Digits

IsLetter(ch) == ch \in LowerCase \cup UpperCase

\* The positions of the expression: 0 at ^, 1 / 3 / 5 inside the first /
\* second / third [a-zA-Z]+, 2 / 4 after the first / second dot, 6 no match.
RegexStep(q, ch) ==
    CASE q \in {0, 1} /\ IsLetter(ch) -> 1
      [] q = 1 /\ ch = "." -> 2
      [] q \in {2, 3} /\ IsLetter(ch) -> 3
      [] q = 3 /\ ch = "." -> 4
      [] q \in {4, 5} /\ IsLetter(ch) -> 5
      [] OTHER -> 6

RECURSIVE RegexRun(_, _, _)
RegexRun(q, words, i) ==
    IF i > Len(words) THEN q ELSE RegexRun(RegexStep(q, words[i]), words, i + 1)

\* regex.test(words): $ is reached inside the third [a-zA-Z]+
ValidateWhat3Words(words) == RegexRun(0, words, 1) = 5

\* The text of a field after a keystroke: a character typed, or the last
\* one deleted.
Keystrokes(text) ==
    {Append(text, ch) : ch \in IF Len(text) < MaxLen THEN TypedChars ELSE {}}
    \cup {SubSeq(text, 1, Len(text) - 1) : x \in IF text # << >> THEN {1} ELSE {}}

\* handleInputChange, lines 124-130, for the what3words field; value is
\* e.target.value.
HandleInputChange(value) ==
    /\ ~view.isLoading
    /\ \A q \in Procs : pc[q] # "alert"
    /\ view' = [view EXCEPT !.what3words = value]
    /\ UNCHANGED <<ncalls, tabs, now, assets, records, nextId, pc, call, local, result, ret,
                   calls, before>>

\* if (isSubmitting) return;  line 134
SubmitGuard_None(v) == TRUE

SubmitGuard(v) == ~v.isSubmitting

\* formData.what3words && !validateWhat3Words(formData.what3words), line 139
RejectsWhat3Words_Never(words) == FALSE

RejectsWhat3Words(words) == words # << >> /\ ~ValidateWhat3Words(words)

\* handleSubmit up to its await, lines 132-148 and 153-155, or up to its
\* alert, lines 132-140: the form is rendered, no submit is in progress;
\* editingFind is null (0) or a Find of the list, formData and imageFile are
\* what the user entered.
HandleSubmit(p) ==
    /\ ~view.isLoading
    /\ \A q \in Procs : pc[q] # "alert"
    /\ SubmitGuard(view)
    /\ view' = [view EXCEPT !.isSubmitting = TRUE]
    /\ IF RejectsWhat3Words(view.what3words)
       THEN /\ pc[p] = "idle"
            /\ pc' = [pc EXCEPT ![p] = "alert"]
            /\ UNCHANGED <<ncalls, tabs, now, assets, records, nextId, call, local, result,
                           ret, calls, before>>
       ELSE \E editingFind \in {0} \cup {view.finds[i].id : i \in DOMAIN view.finds} :
               IF editingFind # 0
               THEN CallUpdateFind(p) /\ call'[p].id = editingFind
               ELSE CallAddFind(p)

\* A submit event while a submit is in progress: handleSubmit returns at
\* line 134.
HandleSubmitIgnored ==
    /\ ~view.isLoading
    /\ \A q \in Procs : pc[q] # "alert"
    /\ ~SubmitGuard(view)
    /\ UNCHANGED vars

\* The user closes the alert: handleSubmit returns through its finally,
\* lines 141 and 168-170.
DismissAlert(p) ==
    /\ pc[p] = "alert"
    /\ pc' = [pc EXCEPT ![p] = "idle"]
    /\ view' = [view EXCEPT !.isSubmitting = FALSE]
    /\ UNCHANGED <<ncalls, tabs, now, assets, records, nextId, call, local, result, ret,
                   calls, before>>

\* finds.map(f => f.id === editingFind.id ? {...f, ...formData, imageUrl:
\* imageFile ? URL.createObjectURL(imageFile) : f.imageUrl} : f), lines 147-151
MapUpdated(finds, id, formData, imageFile) ==
    [i \in DOMAIN finds |->
        IF finds[i].id = id
        THEN [finds[i] EXCEPT !.meta = formData,
                              !.imageUrl = IF imageFile # NoFile THEN BlobUrl ELSE @]
        ELSE finds[i]]

\* handleSubmit from its await on, lines 146-170
HandleSubmitResume(p) ==
    /\ call[p].op \in {"addFind", "updateFind"}
    /\ Resume(p)
    /\ view' = [(IF result[p] = "ok"
                 THEN [view EXCEPT
                         !.finds = IF call[p].op = "updateFind"
                                   THEN MapUpdated(view.finds, call[p].id, call[p].meta,
                                                   call[p].file)
                                   ELSE <<ret[p]>> \o view.finds,
                         !.what3words = << >>,
                         !.error = ""]
                 ELSE [view EXCEPT !.error = FailedToSave])
                EXCEPT !.isSubmitting = FALSE]

\* prevFinds.filter(f => f.id !== find.id)
Filtered(finds, id) == SelectSeq(finds, LAMBDA f : f.id # id)

\* The user clicks delete on a Find of the list and confirms:
\* findService.deleteFind(find.id, find.imageUrl) is called.
ClickDelete(p, find) ==
    /\ ~view.isLoading
    /\ CallDeleteFind(p)
    /\ call'[p].id = find.id
    /\ call'[p].ref = find.imageUrl

\* FindsCatalog.tsx: handleDelete up to its await, lines 53-58
HandleDelete(p) ==
    /\ view.version = "FindsCatalog.tsx"
    /\ \E i \in DOMAIN view.finds : ClickDelete(p, view.finds[i])
    /\ view' = [view EXCEPT !.isLoading = TRUE]

\* FindsCatalog.tsx: handleDelete from its await on, lines 58-64
HandleDeleteResume(p) ==
    /\ view.version = "FindsCatalog.tsx"
    /\ call[p].op = "deleteFind"
    /\ Resume(p)
    /\ view' = IF result[p] = "ok"
               THEN [view EXCEPT !.finds = Filtered(view.finds, call[p].id),
                                 !.isLoading = FALSE]
               ELSE [view EXCEPT !.error = FailedToDelete]

\* findservice.ts, lines 221-234: handleDelete does not await deleteFind; it
\* runs to its end while the call is in flight.
HandleDeleteNoAwait(p) ==
    /\ view.version = "findservice.ts"
    /\ \E i \in DOMAIN view.finds :
          /\ ClickDelete(p, view.finds[i])
          /\ view' = [view EXCEPT !.finds = Filtered(view.finds, view.finds[i].id),
                                  !.isLoading = FALSE]

\* findservice.ts: the promise of deleteFind settles; nothing awaits it.
DeleteFindSettles(p) ==
    /\ view.version = "findservice.ts"
    /\ call[p].op = "deleteFind"
    /\ Return(p)

NextView ==
    \/ \E p \in tabs : LoadFinds(p)
    \/ \E p \in tabs : GetFindsGetDocs(p)
    \/ \E p \in tabs : LoadFindsResume(p)
    \/ \E p \in tabs : HandleSubmit(p)
    \/ \E p \in tabs : AddFindUploadBytes(p)
    \/ \E p \in tabs : AddFindGetDownloadURL(p)
    \/ \E p \in tabs : AddFindAddDoc(p)
    \/ \E p \in tabs : UpdateFindUploadBytes(p)
    \/ \E p \in tabs : UpdateFindGetDownloadURL(p)
    \/ \E p \in tabs : UpdateFindGetDoc(p)
    \/ \E p \in tabs : UpdateFindDeleteObject(p)
    \/ \E p \in tabs : UpdateFindUpdateDoc(p)
    \/ \E p \in tabs : HandleSubmitResume(p)
    \/ \E p \in tabs : HandleDelete(p)
    \/ \E p \in tabs : HandleDeleteNoAwait(p)
    \/ \E p \in tabs : DeleteFindDeleteObject(p)
    \/ \E p \in tabs : DeleteFindDeleteDoc(p)
    \/ \E p \in tabs : HandleDeleteResume(p)
    \/ \E p \in tabs : DeleteFindSettles(p)

SpecView == InitView /\ [][NextView]_vars

\* The form of the component, its first load done with no Find stored: the
\* user types into the what3words field, then submits.  Each caller is an
\* invocation of handleSubmit; the calls they issue stay in flight.
InitForm ==
    /\ tabs = Procs
    /\ ncalls = 0
    /\ now = 0
    /\ assets = {}
    /\ records = << >>
    /\ nextId = 1
    /\ pc = [p \in Procs |-> "idle"]
    /\ call = [p \in Procs |-> IdleCall]
    /\ local = [p \in Procs |-> IdleLocal]
    /\ result = [p \in Procs |-> "none"]
    /\ ret = [p \in Procs |-> NoFind]
    /\ calls = [p \in Procs |-> << >>]
    /\ before = [p \in Procs |-> NoSnapshot]
    /\ view \in {[NoView EXCEPT !.version = v, !.isLoading = FALSE] : v \in Versions}

NextForm ==
    \/ \E value \in Keystrokes(view.what3words) :
          HandleInputChange(value) /\ ~view.isSubmitting
    \/ \E p \in tabs : HandleSubmit(p)
    \/ HandleSubmitIgnored
    \/ \E p \in tabs : DismissAlert(p)

SpecForm == InitForm /\ [][NextForm]_vars

----------------------------------------------------------------------------
(* A session of the component after its mount: loadFinds has resolved with  *)
(* the empty list of an empty collection, lines 39-51, and the user creates, *)
(* updates and deletes Finds.                                                *)
InitLoaded ==
    /\ tabs = {"tab1"}
    /\ ncalls = 0
    /\ now = 0
    /\ assets = {}
    /\ records = << >>
    /\ nextId = 1
    /\ pc = [p \in Procs |-> "idle"]
    /\ call = [p \in Procs |-> IdleCall]
    /\ local = [p \in Procs |-> IdleLocal]
    /\ result = [p \in Procs |-> "none"]
    /\ ret = [p \in Procs |-> NoFind]
    /\ calls = [p \in Procs |-> << >>]
    /\ before = [p \in Procs |-> NoSnapshot]
    /\ view \in {[NoView EXCEPT !.version = v, !.isLoading = FALSE] : v \in Versions}

\* The steps the user does not take: a pending collaborator promise settles,
\* or the handler that awaits a settled service call runs on.
SessionSettles ==
    \/ \E p \in tabs : AddFindUploadBytes(p)
    \/ \E p \in tabs : AddFindGetDownloadURL(p)
    \/ \E p \in tabs : AddFindAddDoc(p)
    \/ \E p \in tabs : UpdateFindUploadBytes(p)
    \/ \E p \in tabs : UpdateFindGetDownloadURL(p)
    \/ \E p \in tabs : UpdateFindGetDoc(p)
    \/ \E p \in tabs : UpdateFindDeleteObject(p)
    \/ \E p \in tabs : UpdateFindUpdateDoc(p)
    \/ \E p \in tabs : HandleSubmitResume(p)
    \/ \E p \in tabs : DeleteFindDeleteObject(p)
    \/ \E p \in tabs : DeleteFindDeleteDoc(p)
    \/ \E p \in tabs : HandleDeleteResume(p)
    \/ \E p \in tabs : DeleteFindSettles(p)

NextSession ==
    \/ \E p \in tabs : HandleSubmit(p)
    \/ \E p \in tabs : HandleDelete(p)
    \/ \E p \in tabs : HandleDeleteNoAwait(p)
    \/ SessionSettles

\* Every promise settles and every continuation runs: a step of
\* SessionSettles that stays possible is taken (each of them moves pc).  The
\* user is not obliged to click.
SpecSessionFair == InitLoaded /\ [][NextSession]_vars /\ WF_pc(SessionSettles)

\* The collaborator call that settles in this step resolves.
Resolves(p) == calls'[p][Len(calls'[p])].ok

\* The session in which every collaborator call resolves, so that every
\* service call succeeds.
NextSessionOk ==
    \/ \E p \in tabs : HandleSubmit(p)
    \/ \E p \in tabs : HandleDelete(p)
    \/ \E p \in tabs : HandleDeleteNoAwait(p)
    \/ \E p \in tabs : AddFindUploadBytes(p) /\ Resolves(p)
    \/ \E p \in tabs : AddFindGetDownloadURL(p) /\ Resolves(p)
    \/ \E p \in tabs : AddFindAddDoc(p) /\ Resolves(p)
    \/ \E p \in tabs : UpdateFindUploadBytes(p) /\ Resolves(p)
    \/ \E p \in tabs : UpdateFindGetDownloadURL(p) /\ Resolves(p)
    \/ \E p \in tabs : UpdateFindGetDoc(p) /\ Resolves(p)
    \/ \E p \in tabs : UpdateFindDeleteObject(p) /\ Resolves(p)
    \/ \E p \in tabs : UpdateFindUpdateDoc(p) /\ Resolves(p)
    \/ \E p \in tabs : HandleSubmitResume(p)
    \/ \E p \in tabs : DeleteFindDeleteObject(p) /\ Resolves(p)
    \/ \E p \in tabs : DeleteFindDeleteDoc(p) /\ Resolves(p)
    \/ \E p \in tabs : HandleDeleteResume(p)
    \/ \E p \in tabs : DeleteFindSettles(p)

SpecSessionOk == InitLoaded /\ [][NextSessionOk]_vars

TypeOK ==
    /\ tabs \subseteq Procs
    /\ now \in 0..MaxClock
    /\ ncalls \in 0..MaxCalls
    /\ nextId \in 1..(MaxCalls + 1)
    /\ Ids \subseteq 1..(nextId - 1)
    /\ view.version \in Versions \cup {"none"}
    /\ view.isLoading \in BOOLEAN /\ view.isSubmitting \in BOOLEAN
    /\ (\A p \in tabs : pc[p] = "idle") =>
          {view.finds[i].id : i \in DOMAIN view.finds} \subseteq Ids
    /\ \A p \in Procs : pc[p] \in {"idle", "uploadBytes", "getDownloadURL", "addDoc",
                                   "deleteObject", "deleteDoc", "getDoc", "updateDoc", "getDocs",
                                   "alert", "done"}

----------------------------------------------------------------------------
(* Reading the stores and the record of a call *)

\* The image-reference of the stored Find id names something that is there:
\* the placeholder, or an object the Asset Store holds.
ValidImage(id) ==
    \/ records[id].imageUrl = Placeholder
    \/ /\ IsStorageUrl(records[id].imageUrl)
       /\ RefFromUrl(records[id].imageUrl) \in assets

ValidBefore(p, id) ==
    /\ id \in DOMAIN before[p].records
    /\ \/ before[p].records[id].imageUrl = Placeholder
       \/ /\ IsStorageUrl(before[p].records[id].imageUrl)
          /\ RefFromUrl(before[p].records[id].imageUrl) \in before[p].assets

Running(p, op) == call[p].op = op /\ pc[p] # "idle"
Done(p, op) == call[p].op = op /\ pc[p] = "done"

\* The collaborator call `name` was made in p's current call, with outcome ok.
Made(p, name, ok) ==
    \E i \in DOMAIN calls[p] : calls[p][i].call = name /\ calls[p][i].ok = ok
Tried(p, name) == Made(p, name, TRUE) \/ Made(p, name, FALSE)

LastCall(p) == calls[p][Len(calls[p])]

\* uploadImage returned a URL / threw.
UploadSucceeded(p) == Made(p, "uploadBytes", TRUE) /\ Made(p, "getDownloadURL", TRUE)
UploadFailedIn(p) == Made(p, "uploadBytes", FALSE) \/ Made(p, "getDownloadURL", FALSE)

----------------------------------------------------------------------------
\* The step of p is the record write of an update that succeeds.
WritesRecord(p) ==
    /\ call[p].op = "updateFind" /\ pc[p] = "updateDoc"
    /\ pc'[p] = "done" /\ result'[p] = "ok"

\* Both tabs have an update of the same Find in progress or resolved.
Racing(p, q) ==
    /\ p # q
    /\ Running(p, "updateFind") /\ Running(q, "updateFind")
    /\ call[p].id = call[q].id

\* Every collaborator call p has made resolved.
AllCallsOk(p) == \A i \in DOMAIN calls[p] : calls[p][i].ok

(* C26: when two updateFind calls for the same id run interleaved, the      *)
(* record write of each one that succeeds is applied whatever the other has *)
(* done (no version check, no rejection): right after it the stored         *)
(* metadata are those of that call; and nothing but such a record write     *)
(* changes the stored metadata, so that after both the metadata are those   *)
(* of the call whose write was applied last.                                *)
C26_LastWriteWins ==
    [][/\ \A p, q \in tabs :
            Racing(p, q) /\ WritesRecord(p)
                => /\ call[p].id \in DOMAIN records'
                   /\ records'[call[p].id].meta = call[p].meta
       /\ \A id \in Ids :
            id \in DOMAIN records' /\ records'[id].meta # records[id].meta
                => \E p \in tabs : WritesRecord(p) /\ call[p].id = id]_vars

\* Both updates succeeded with different metadata; q began before the write
\* of p was applied (it did not see the metadata of p) and wrote after it:
\* the stored metadata are those of q.
C26_Witness ==
    \E p, q \in tabs :
        /\ Racing(p, q)
        /\ pc[p] = "done" /\ result[p] = "ok"
        /\ pc[q] = "done" /\ result[q] = "ok"
        /\ call[p].meta # call[q].meta
        /\ before[q].records[call[q].id].meta # call[p].meta
        /\ records[call[q].id].meta = call[q].meta

(* C27: when two updateFind calls with new images for the same Find are     *)
(* interleaved and every collaborator call of both succeeds, then after     *)
(* both have completed the stored image-reference of the Find points at an  *)
(* asset the Asset Store holds.                                             *)
C27_RaceKeepsReferencedAsset ==
    \A p, q \in tabs :
        /\ Racing(p, q)
        /\ pc[p] = "done" /\ pc[q] = "done"
        /\ call[p].file # NoFile /\ call[q].file # NoFile
        /\ AllCallsOk(p) /\ AllCallsOk(q)
        => /\ call[p].id \in Ids
           /\ ValidImage(call[p].id)

----------------------------------------------------------------------------
\* A deleteFind call the view has issued is in progress.
DeleteAttempted == \E p \in tabs : Running(p, "deleteFind")

(* C28: after every delete attempt from the view, whether deleteFind        *)
(* resolves or rejects, isLoading eventually is false again: the catalog is *)
(* rendered instead of the loading spinner.                                 *)
C28_DeleteEndsLoading == DeleteAttempted ~> ~view.isLoading

\* The identifiers of a list of Finds, in its order.
IdsOf(list) == [i \in DOMAIN list |-> list[i].id]

\* No service call of the session is in flight and none has failed.
Quiescent == \A p \in tabs : pc[p] = "idle"

(* C29: in a session that starts with a successful load and in which every  *)
(* service call succeeds, once the view's creates, updates and deletes have *)
(* resolved the list of the view holds, in its order, the identifiers of    *)
(* the list getFinds() would resolve with.                                  *)
C29_ViewListIsListAll ==
    Quiescent => \A list \in QuerySnapshots : IdsOf(view.finds) = IdsOf(list)

\* The identifiers are those of the collection, and the list is ordered by
\* createdAt, newest first: it is one of the lists getFinds() can resolve with.
C29_ViewListIsOneListAll ==
    Quiescent => \E list \in QuerySnapshots : IdsOf(view.finds) = IdsOf(list)

----------------------------------------------------------------------------
(* C1: in updateFind the old asset is deleted only after the upload of the  *)
(* new one has returned successfully: every deleteObject of an update comes *)
(* after a successful uploadBytes and getDownloadURL of the same call, and  *)
(* an update whose upload failed has removed nothing from the Asset Store,  *)
(* so the old asset is still there.                                         *)
C1_DeleteOnlyAfterUpload ==
    \A p \in tabs : Running(p, "updateFind") =>
        /\ \A i \in DOMAIN calls[p] : calls[p][i].call = "deleteObject" =>
              /\ \E j \in 1..(i - 1) : calls[p][j] = Entry("uploadBytes", local[p].storageRef, TRUE)
              /\ \E j \in 1..(i - 1) : calls[p][j] = Entry("getDownloadURL", local[p].storageRef, TRUE)
        /\ UploadFailedIn(p) =>
              /\ ~Tried(p, "deleteObject")
              /\ before[p].assets \subseteq assets

\* An update with a new image of a Find whose asset is stored has failed in
\* its upload, and the old asset is there.
C1_Witness ==
    \E p \in tabs :
        /\ Done(p, "updateFind")
        /\ calls[p] = <<Entry("uploadBytes", local[p].storageRef, FALSE)>>
        /\ call[p].id \in Ids
        /\ IsStorageUrl(records[call[p].id].imageUrl)
        /\ RefFromUrl(records[call[p].id].imageUrl) \in assets

(* C2: in every reachable state the image-reference of every stored Find is *)
(* the placeholder or the URL of an asset the Asset Store holds.            *)
C2_NoDanglingReference ==
    \A id \in Ids : ValidImage(id)

(* C3: when updateFind fails, at whatever step, the stored Find still has a *)
(* valid image (it had one when the update was called).                     *)
C3_FailedUpdateKeepsValidImage ==
    \A p \in tabs :
        (Done(p, "updateFind") /\ result[p] # "ok" /\ ValidBefore(p, call[p].id)
            /\ call[p].id \in Ids)
        => ValidImage(call[p].id)

(* C4: when deleteFind stops between its two steps (after the asset         *)
(* deletion, or with the record deletion failed), no stored Find points at  *)
(* an asset that is gone.                                                   *)
C4_StoppedDeleteLeavesNoDanglingRecord ==
    \A p \in tabs :
        (/\ Running(p, "deleteFind")
         /\ pc[p] = "deleteDoc" \/ (pc[p] = "done" /\ result[p] # "ok")
         /\ \A id \in DOMAIN before[p].records : ValidBefore(p, id))
        => \A id \in Ids : ValidImage(id)

(* C5: deleteFind always issues the record deletion for its id, also when   *)
(* the asset deletion failed; when that record deletion succeeds the record *)
(* is gone and deleteFind returns normally.                                 *)
C5_DeleteAlwaysDeletesRecord ==
    \A p \in tabs : Done(p, "deleteFind") =>
        /\ LastCall(p).call = "deleteDoc"
        /\ LastCall(p).arg = call[p].id
        /\ LastCall(p).ok => (result[p] = "ok" /\ call[p].id \notin Ids)

\* The asset deletion was tried and failed, the record deletion succeeded.
C5_Witness ==
    \E p \in tabs :
        /\ Done(p, "deleteFind")
        /\ calls[p] = <<Entry("deleteObject", local[p].imageRef, FALSE),
                        Entry("deleteDoc", call[p].id, TRUE)>>
        /\ result[p] = "ok"
        /\ call[p].id \in DOMAIN before[p].records
        /\ call[p].id \notin Ids

(* C6: addFind called with an image whose upload fails, fails, and inserts  *)
(* no record: the Record Store is as it was before the call.                *)
C6_FailedUploadWritesNoRecord ==
    \A p \in tabs :
        (Running(p, "addFind") /\ call[p].file # NoFile /\ UploadFailedIn(p)) =>
            /\ pc[p] = "done"
            /\ result[p] # "ok"
            /\ ~Tried(p, "addDoc")
            /\ records = before[p].records

C6_Witness ==
    \E p \in tabs :
        /\ Done(p, "addFind")
        /\ call[p].file # NoFile
        /\ Made(p, "uploadBytes", FALSE)
        /\ result[p] = "Failed to add find"
        /\ records = before[p].records
        /\ Ids # {}

(* C7: addFind called without an image performs no upload, and the Find it  *)
(* returns and the record it inserts both carry the placeholder.            *)
C7_NoImageGivesPlaceholder ==
    \A p \in tabs :
        (Running(p, "addFind") /\ call[p].file = NoFile) =>
            /\ ~Tried(p, "uploadBytes") /\ ~Tried(p, "getDownloadURL")
            /\ assets = before[p].assets
            /\ (pc[p] = "done" /\ result[p] = "ok") =>
                  /\ ret[p].imageUrl = Placeholder
                  /\ ret[p].id \in Ids
                  /\ ret[p].id \notin DOMAIN before[p].records
                  /\ records[ret[p].id].imageUrl = Placeholder
                  /\ LastCall(p).arg.imageUrl = Placeholder

C7_Witness ==
    \E p \in tabs :
        /\ Done(p, "addFind")
        /\ call[p].file = NoFile
        /\ result[p] = "ok"
        /\ records[ret[p].id].imageUrl = Placeholder

(* C8: when addFind has uploaded its asset and the insert then fails,       *)
(* addFind fails, the Record Store is as before the call, and the uploaded  *)
(* asset stays in the Asset Store.                                          *)
C8_FailedInsertLeavesAsset ==
    \A p \in tabs :
        (Running(p, "addFind") /\ UploadSucceeded(p) /\ Made(p, "addDoc", FALSE)) =>
            /\ pc[p] = "done"
            /\ result[p] # "ok"
            /\ records = before[p].records
            /\ local[p].storageRef \in assets

C8_Witness ==
    \E p \in tabs :
        /\ Done(p, "addFind")
        /\ UploadSucceeded(p)
        /\ Made(p, "addDoc", FALSE)
        /\ local[p].storageRef \in assets
        /\ local[p].storageRef \notin before[p].assets

(* C9: the failure addFind and updateFind hand to the caller is the failure *)
(* of the step that failed, unmodified: a failed upload surfaces as the     *)
(* error uploadImage raised, and never as the error of a failed write.      *)
AssetUploadFailed == UploadImageCatch(StorageError)

C9_FailureKindPassedThrough ==
    \A p \in tabs :
        ((Done(p, "addFind") \/ Done(p, "updateFind")) /\ Made(p, "uploadBytes", FALSE))
        => result[p] = AssetUploadFailed

(* C10: in updateFind a failed deletion of the old asset does not fail the  *)
(* update: the record write is still made, and the update succeeds when     *)
(* that write succeeds.                                                     *)
C10_FailedOldAssetDeleteIsSwallowed ==
    \A p \in tabs :
        (Done(p, "updateFind") /\ Made(p, "deleteObject", FALSE)) =>
            /\ LastCall(p).call = "updateDoc"
            /\ LastCall(p).ok => result[p] = "ok"

C10_Witness ==
    \E p \in tabs :
        /\ Done(p, "updateFind")
        /\ Made(p, "deleteObject", FALSE)
        /\ LastCall(p) = Entry("updateDoc", call[p].id, TRUE)
        /\ result[p] = "ok"
        /\ records[call[p].id].imageUrl = local[p].imageUrl

(* C11: updateFind fails only when the upload of the new asset fails or the *)
(* record write fails: an update that has failed has a failed uploadBytes,  *)
(* getDownloadURL or updateDoc among its collaborator calls.                *)
C11_UpdateFailsOnlyOnUploadOrWrite ==
    \A p \in tabs :
        (Done(p, "updateFind") /\ result[p] # "ok") =>
            UploadFailedIn(p) \/ Made(p, "updateDoc", FALSE)

C13_UpdateWithoutImageKeepsReference ==
    \A p \in tabs :
        (Running(p, "updateFind") /\ call[p].file = NoFile) =>
            /\ ~Tried(p, "uploadBytes") /\ ~Tried(p, "getDownloadURL")
            /\ ~Tried(p, "getDoc") /\ ~Tried(p, "deleteObject")
            /\ assets = before[p].assets
            /\ (pc[p] = "done" /\ result[p] = "ok") =>
                  /\ call[p].id \in Ids
                  /\ records[call[p].id].imageUrl = before[p].records[call[p].id].imageUrl
                  /\ records[call[p].id].meta = call[p].meta
                  /\ records[call[p].id].createdAt = before[p].records[call[p].id].createdAt

\* The metadata of a Find with a stored asset has been replaced.
C13_Witness ==
    \E p \in tabs :
        /\ Done(p, "updateFind")
        /\ call[p].file = NoFile
        /\ result[p] = "ok"
        /\ IsStorageUrl(records[call[p].id].imageUrl)
        /\ records[call[p].id].meta # before[p].records[call[p].id].meta

(* C14: no two distinct stored Finds hold the same image-reference, unless  *)
(* it is the placeholder.                                                   *)
C14_NoSharedAsset ==
    \A i, j \in Ids :
        (i # j /\ records[i].imageUrl = records[j].imageUrl) =>
            records[i].imageUrl = Placeholder

(* C16: deleteFind issues deleteObject only when the reference it was given *)
(* is not the placeholder; given the placeholder, its first and only        *)
(* collaborator call is deleteDoc.                                          *)
C16_PlaceholderSkipsAssetDelete ==
    \A p \in tabs : Running(p, "deleteFind") =>
        /\ (pc[p] = "deleteObject" \/ Tried(p, "deleteObject")) => call[p].ref # Placeholder
        /\ call[p].ref = Placeholder =>
              /\ pc[p] \in {"deleteDoc", "done"}
              /\ \A i \in DOMAIN calls[p] : calls[p][i].call = "deleteDoc"

C16_Witness ==
    \E p \in tabs :
        /\ Done(p, "deleteFind")
        /\ call[p].ref = Placeholder
        /\ calls[p] = <<Entry("deleteDoc", call[p].id, TRUE)>>
        /\ call[p].id \notin Ids

(* C19: getFinds resolves with every Find of the Record Store, each once,   *)
(* with the fields stored, ordered by createdAt descending, in whatever     *)
(* order the Finds were inserted.                                           *)
C19_ListAllNewestFirst ==
    [][\A p \in tabs :
         (pc[p] = "getDocs" /\ pc'[p] = "done" /\ result'[p] = "ok") =>
            /\ Len(ret'[p]) = Cardinality(Ids)
            /\ {ret'[p][i].id : i \in DOMAIN ret'[p]} = Ids
            /\ \A i \in DOMAIN ret'[p] : ret'[p][i] = LoadedFind(ret'[p][i].id)
            /\ \A i, j \in DOMAIN ret'[p] :
                  i < j => ret'[p][i].createdAt >= ret'[p][j].createdAt]_vars

\* The list starts with a Find that is newer than the next one and was
\* inserted before it.
C19_Witness ==
    \E p \in tabs :
        /\ Done(p, "getFinds")
        /\ result[p] = "ok"
        /\ Len(ret[p]) >= 2
        /\ ret[p][1].createdAt > ret[p][2].createdAt
        /\ ret[p][1].id < ret[p][2].id

(* C15: a Find is destroyed together with its asset: when a delete issued   *)
(* from the view has succeeded with every collaborator call succeeding, the *)
(* asset the stored record referenced is no longer in the Asset Store.      *)
C15_DeleteReclaimsAsset ==
    \A p \in tabs :
        (/\ Done(p, "deleteFind")
         /\ result[p] = "ok"
         /\ \A i \in DOMAIN calls[p] : calls[p][i].ok
         /\ call[p].id \in DOMAIN before[p].records
         /\ IsStorageUrl(before[p].records[call[p].id].imageUrl))
        => RefFromUrl(before[p].records[call[p].id].imageUrl) \notin assets

(* C17: the list of the view changes only in the step in which the view     *)
(* takes the successful outcome of a service call: it does not change while *)
(* a call is in flight, nor when the call has failed.                       *)
C17_ListChangesOnlyAfterSuccess ==
    [][view'.finds # view.finds =>
          \E p \in tabs : pc[p] = "done" /\ result[p] = "ok" /\ pc'[p] = "idle"]_vars

(* C18: when the view takes the outcome of a successful getFinds, or of a   *)
(* successful updateFind of a Find for which it holds an object URL, the    *)
(* image-reference it then holds for the Find is the stored one, and not an *)
(* object URL.                                                              *)
C18_ObjectUrlReplaced ==
    [][\A p \in tabs :
         (/\ pc[p] = "done" /\ pc'[p] = "idle" /\ result[p] = "ok"
          /\ \/ call[p].op = "getFinds"
             \/ /\ call[p].op = "updateFind"
                /\ \E i \in DOMAIN view.finds :
                      view.finds[i].id = call[p].id /\ view.finds[i].imageUrl = BlobUrl)
         => \A i \in DOMAIN view'.finds :
               (call[p].op = "getFinds" \/ view'.finds[i].id = call[p].id) =>
                  /\ view'.finds[i].imageUrl # BlobUrl
                  /\ view'.finds[i].imageUrl = records[view'.finds[i].id].imageUrl]_vars

(* C20: when getFinds fails, loadFinds leaves the list of the view as it    *)
(* was and sets the error message.                                          *)
C20_FailedLoadKeepsList ==
    [][\A p \in tabs :
         (pc[p] = "done" /\ pc'[p] = "idle" /\ call[p].op = "getFinds" /\ result[p] # "ok")
         => /\ view'.finds = view.finds
            /\ view'.error = FailedToLoad
            /\ ~view'.isLoading]_vars

\* A load has failed and the list still shows Finds.
C20_Witness ==
    /\ view.error = FailedToLoad
    /\ view.finds # << >>
    /\ ~view.isLoading
    /\ \A p \in tabs : pc[p] = "idle"

\* Caller p holds the Find a successful addFind resolved with, and caller q
\* the list of a successful getFinds that was called after that.
CreatedThenListed(p, q) ==
    /\ Done(p, "addFind") /\ result[p] = "ok"
    /\ Done(q, "getFinds") /\ result[q] = "ok"
    /\ ret[p].id \in DOMAIN before[q].records

(* C21: after a successful addFind(find, imageFile), a getFinds called next *)
(* lists exactly one Find with the identifier addFind returned, and that    *)
(* Find carries the fields submitted and the image-reference addFind        *)
(* resolved (the placeholder, or the download URL of the uploaded object).  *)
C21_CreateListRoundTrip ==
    \A p, q \in tabs : CreatedThenListed(p, q) =>
        /\ Cardinality({i \in DOMAIN ret[q] : ret[q][i].id = ret[p].id}) = 1
        /\ \A i \in DOMAIN ret[q] : ret[q][i].id = ret[p].id =>
              /\ ret[q][i].meta = call[p].meta
              /\ ret[q][i].imageUrl = ret[p].imageUrl
              /\ ret[q][i].imageUrl = IF call[p].file = NoFile
                                      THEN Placeholder
                                      ELSE DownloadUrl(StorageRef(local[p].storageRef[2], call[p].file))

\* A Find created with an image is listed among others.
C21_Witness ==
    \E p, q \in tabs :
        /\ CreatedThenListed(p, q)
        /\ call[p].file # NoFile
        /\ Len(ret[q]) >= 2
        /\ \E i \in DOMAIN ret[q] : ret[q][i].id = ret[p].id /\ IsStorageUrl(ret[q][i].imageUrl)

(* C22: the Find a successful addFind returned has a store-assigned         *)
(* identifier and is the first of the list of a getFinds called next (no    *)
(* Find was created in between).                                            *)
C22_CreatedFindListedFirst ==
    \A p, q \in tabs :
        (CreatedThenListed(p, q) /\ ret[p].id = nextId - 1) =>
            /\ ret[p].id # 0
            /\ ret[q][1].id = ret[p].id

(* C23: updateFind changes neither the identifier nor the createdAt of any  *)
(* Find, and changes no Find but the one with the id it was given: while an *)
(* update runs and when it is done, the Record Store holds the Finds it     *)
(* held when the update was called, each with the createdAt it had, and the *)
(* other Finds as they were.                                                *)
C23_UpdateKeepsIdAndCreatedAt ==
    \A p \in tabs : Running(p, "updateFind") =>
        /\ DOMAIN records = DOMAIN before[p].records
        /\ \A id \in Ids :
              /\ records[id].createdAt = before[p].records[id].createdAt
              /\ id # call[p].id => records[id] = before[p].records[id]

\* An update with a new image has changed one of two stored Finds.
C23_Witness ==
    \E p \in tabs :
        /\ Done(p, "updateFind")
        /\ result[p] = "ok"
        /\ call[p].file # NoFile
        /\ Cardinality(Ids) >= 2
        /\ records[call[p].id] # before[p].records[call[p].id]

\* Three non-empty tokens of ASCII letters, separated by two dots at i and
\* j, and nothing else.
IsWordTriple(words) ==
    \E i, j \in DOMAIN words :
        /\ 1 < i /\ i + 1 < j /\ j < Len(words)
        /\ words[i] = "." /\ words[j] = "."
        /\ \A k \in DOMAIN words \ {i, j} : words[k] \in LowerCase \cup UpperCase

(* C24: validateWhat3Words returns true for a string exactly when the       *)
(* string is three non-empty tokens of ASCII letters of either case         *)
(* separated by two dots, with nothing before, between or after; checked    *)
(* for the text of the what3words field and for the examples                *)
(* "filled.count.soap", "Filled.Count.Soap" (valid), "filled count soap",   *)
(* "filled.count" and "filled.count.soap1" (invalid).                       *)
C24_ValidatorAcceptsWordTriples ==
    /\ ValidateWhat3Words(view.what3words) <=> IsWordTriple(view.what3words)
    /\ ValidateWhat3Words(<<"f", "i", "l", "l", "e", "d", ".", "c", "o", "u", "n", "t", ".", "s", "o", "a", "p">>)
    /\ ValidateWhat3Words(<<"F", "i", "l", "l", "e", "d", ".", "C", "o", "u", "n", "t", ".", "S", "o", "a", "p">>)
    /\ ~ValidateWhat3Words(<<"f", "i", "l", "l", "e", "d", " ", "c", "o", "u", "n", "t", " ", "s", "o", "a", "p">>)
    /\ ~ValidateWhat3Words(<<"f", "i", "l", "l", "e", "d", ".", "c", "o", "u", "n", "t">>)
    /\ ~ValidateWhat3Words(<<"f", "i", "l", "l", "e", "d", ".", "c", "o", "u", "n", "t", ".", "s", "o", "a", "p", "1">>)

\* A submit with a word triple of both cases in the field went through.
C24_Witness ==
    \E p \in tabs :
        /\ pc[p] \notin {"idle", "alert"}
        /\ ValidateWhat3Words(view.what3words)
        /\ \E k \in DOMAIN view.what3words : view.what3words[k] = "Z"
        /\ \E k \in DOMAIN view.what3words : view.what3words[k] = "a"

(* C25: a submit with a what3words field that is not empty and fails the    *)
(* validator issues no service call and changes neither the list nor the    *)
(* stores; a submit with an empty field, or one that passes, issues the     *)
(* call.                                                                    *)
C25_InvalidSubmitIssuesNoCall ==
    [][(~view.isSubmitting /\ view'.isSubmitting) =>
          IF view.what3words # << >> /\ ~ValidateWhat3Words(view.what3words)
          THEN /\ ncalls' = ncalls
               /\ call' = call /\ calls' = calls
               /\ \A p \in tabs : pc'[p] \in {"idle", "alert"} \/ pc'[p] = pc[p]
               /\ view'.finds = view.finds
               /\ assets' = assets /\ records' = records
          ELSE /\ ncalls' = ncalls + 1
               /\ \E p \in tabs : /\ pc[p] = "idle" /\ pc'[p] \notin {"idle", "alert"}
                                  /\ call'[p].op \in {"addFind", "updateFind"}]_vars

\* The alert is up for a field that is not empty; no call was made.
C25_Witness ==
    \E p \in tabs :
        /\ pc[p] = "alert"
        /\ view.what3words # << >>
        /\ call[p] = IdleCall
        /\ ncalls = 0

\* The create and update calls that are in flight.
SubmitsInFlight ==
    {p \in tabs : call[p].op \in {"addFind", "updateFind"} /\ pc[p] \notin {"idle", "alert", "done"}}

(* C30: at most one service call issued by handleSubmit is in flight, and   *)
(* while it is, isSubmitting is set, so that a further submit event issues  *)
(* no call.                                                                 *)
C30_OneSubmitInFlight ==
    /\ Cardinality(SubmitsInFlight) <= 1
    /\ SubmitsInFlight # {} => (view.isSubmitting /\ ncalls = 1)

\* A submit is in flight and a second invocation of handleSubmit has
\* nothing running.
C30_Witness ==
    \E p, q \in tabs :
        /\ p \in SubmitsInFlight
        /\ q # p /\ pc[q] = "idle" /\ call[q] = IdleCall
        /\ view.isSubmitting

====
